---- MODULE Spec2Model ----
(***************************************************************************)
(* Model of src/physfs_archiver_vpk.c: VPK_openArchive, the two            *)
(* name-colliding definitions of vpkLoadEntries, and vpkReadString.        *)
(*                                                                         *)
(* A byte is a number in 0..255 and the stream is a sequence of bytes.     *)
(* A 32-bit unsigned value is held as its four base-256 digits, least      *)
(* significant digit first (a "word"), because values up to 2^32-1 do not  *)
(* fit the checker's integers.  16-bit values are plain numbers.           *)
(***************************************************************************)
EXTENDS Integers, Sequences, FiniteSets, TLC

VARIABLES
    stream,      \* the bytes behind the PHYSFS_Io
    cursor,      \* the io's read position (bytes consumed so far from offset 0)
    hostBE,      \* TRUE on a big-endian host
    loader,      \* which definition of vpkLoadEntries the call at line 170 reaches
    forWriting,  \* argument of VPK_openArchive
    input,       \* how the stream was built: [es, hdr, mut]
    pc,          \* position in VPK_openArchive / vpkLoadEntries
    err,         \* the error code last set (PHYSFS_setErrorCode)
    claimed,     \* *claimed
    magic, version, pos, count,   \* locals of VPK_openArchive
    unpkarc,     \* "NULL" or "handle"
    registry,    \* entries added to unpkarc by UNPK_addEntry
    abandoned,   \* number of UNPK_abandonArchive calls on unpkarc
    result,      \* "none" while running, then "NULL" or "handle"
    seeks,       \* targets of the io->seek calls made, in order
    ext, dir, name, path, entry,  \* locals of vpkLoadEntries (tree walk)
    i,           \* loop counter of vpkLoadEntries (flat table)
    strlog,      \* the last vpkReadString call: [level, start, ok, used, dest]
    nnames,      \* non-empty name strings read so far
    recs         \* stream offsets of the entry records read in full so far

vars == <<stream, cursor, hostBE, loader, forWriting, input, pc, err, claimed,
          magic, version, pos, count, unpkarc, registry, abandoned, result,
          seeks, ext, dir, name, path, entry, i, strlog, nnames, recs>>

-----------------------------------------------------------------------------
(* Program constants *)

VPK_SIG == 1437209140       \* 0x55AA1234
StrCap == 256               \* sizeof(ext), sizeof(dir), sizeof(name)
PathCap == 1024             \* sizeof(path)
TerminatorOK == 65535       \* 0xFFFF
FlatRecordSize == 64        \* the divisor of the directory size check
FlatNameLen == 56           \* char name[56]

(* Bounds of the model *)
MaxEntries == 2             \* longest entry list encoded into a stream

-----------------------------------------------------------------------------
(* Bytes and words *)

Digit(n, k) == (n \div (IF k = 0 THEN 1 ELSE IF k = 1 THEN 256
                        ELSE IF k = 2 THEN 65536 ELSE 16777216)) % 256

\* the word of a number below 2^31
U32(n) == <<Digit(n, 0), Digit(n, 1), Digit(n, 2), Digit(n, 3)>>

Reverse(s) == [k \in 1..Len(s) |-> s[Len(s) + 1 - k]]

Fits(w) == w[4] < 128
Val(w) == w[1] + 256 * w[2] + 65536 * w[3] + 16777216 * w[4]

\* what a 4-byte integer object holds after its bytes were read from the stream
NativeWord(bytes) == IF hostBE THEN Reverse(bytes) ELSE bytes

\* a 4-byte little-endian field as read by __PHYSFS_readAll into a PHYSFS_uint32
\* and converted by PHYSFS_swapULE32 (lines 142-143, 147-148, 154-155, 157-158)
LE32_NoSwap(bytes) == NativeWord(bytes)
LE32(bytes) == IF hostBE THEN Reverse(NativeWord(bytes)) ELSE NativeWord(bytes)

\* what a 2-byte integer object holds after its bytes were read from the stream
NativeU16(bytes) == IF hostBE THEN 256 * bytes[1] + bytes[2]
                    ELSE bytes[1] + 256 * bytes[2]

Least(S) == CHOOSE k \in S : \A j \in S : k <= j

\* the bytes of a C string held in a buffer: up to the first NUL
CStr(buf) == LET z == {k \in 1..Len(buf) : buf[k] = 0}
             IN IF z = {} THEN buf ELSE SubSeq(buf, 1, Least(z) - 1)

Take(s, n) == IF Len(s) <= n THEN s ELSE SubSeq(s, 1, n)

-----------------------------------------------------------------------------
(* The archives given to VPK_openArchive: the on-disk layout, built from an  *)
(* entry list, a header and one optional damage                              *)

Exts == {<<120>>, <<121, 122>>}                 \* "x", "yz"
Dirs == {<<100>>, <<101, 47, 102>>}             \* "d", "e/f"
Names == {<<110>>, <<109, 111>>}                \* "n", "mo"
OffSizes == {<<128, 64>>, <<16909060, 168496141>>}   \* 0x01020304, 0x0A0B0C0D

Entries == [ext : Exts, dir : Dirs, name : Names, os : OffSizes]

Lists(n) == UNION {[1..k -> Entries] : k \in 0..n}

E1 == [ext |-> <<120>>, dir |-> <<100>>, name |-> <<110>>, os |-> <<128, 64>>]
E2 == [ext |-> <<120>>, dir |-> <<100>>, name |-> <<109, 111>>,
       os |-> <<16909060, 168496141>>]
E3 == [ext |-> <<121, 122>>, dir |-> <<101, 47, 102>>, name |-> <<110>>,
       os |-> <<128, 64>>]
Samples == {<<>>, <<E1>>, <<E1, E2>>, <<E1, E3>>}

\* a token of the directory tree: a NUL-terminated string or an 18-byte record
Str(s) == [kind |-> "str", bytes |-> s \o <<0>>]
Rec(crc, preload, archive, offset, size, term) ==
    [kind |-> "rec",
     bytes |-> crc \o <<preload % 256, preload \div 256>>
                   \o <<archive % 256, archive \div 256>>
                   \o offset \o size \o <<term % 256, term \div 256>>]
GoodRec(e) == Rec(U32(0), 0, 65535, U32(e.os[1]), U32(e.os[2]), 65535)

\* the tokens of entries k..Len(es): extension-major, then directory, then name
RECURSIVE Tree(_, _)
Tree(es, k) ==
    IF k > Len(es)
    THEN (IF Len(es) > 0 THEN <<Str(<<>>), Str(<<>>)>> ELSE <<>>) \o <<Str(<<>>)>>
    ELSE LET e == es[k]
             newExt == k = 1 \/ es[k - 1].ext # e.ext
             newDir == newExt \/ es[k - 1].dir # e.dir
             close == IF k = 1 THEN <<>>
                      ELSE IF newExt THEN <<Str(<<>>), Str(<<>>)>>
                      ELSE IF newDir THEN <<Str(<<>>)>> ELSE <<>>
             open == IF newExt THEN <<Str(e.ext), Str(e.dir)>>
                     ELSE IF newDir THEN <<Str(e.dir)>> ELSE <<>>
         IN close \o open \o <<Str(e.name), GoodRec(e)>> \o Tree(es, k + 1)

RECURSIVE Flat(_)
Flat(toks) == IF toks = <<>> THEN <<>> ELSE Head(toks).bytes \o Flat(Tail(toks))

Header(h) == U32(h.magic) \o U32(h.version) \o U32(h.pos) \o U32(h.size)

\* the (path, offset, size) triples an entry list stands for
PathOf(e) == e.dir \o <<47>> \o e.name \o <<46>> \o e.ext
Triples(es) == [k \in 1..Len(es) |->
                  [path |-> PathOf(es[k]), offset |-> U32(es[k].os[1]),
                   size |-> U32(es[k].os[2])]]

\* damages: a record's terminator replaced by v and its crc, preload and
\* archive fields by the filler f, a string made v bytes long, the stream cut
\* after k bytes; "trail" is no damage: the bytes of a version-2 trailer follow
\* the tree
NoDamage == [m |-> "none", k |-> 0, v |-> 0, f |-> 0]
Terms == {0, 65534, 255, 65280, 65535}
LongLens == {StrCap - 1, StrCap}
Damages(toks) ==
    {NoDamage}
    \cup {[m |-> "rec", k |-> k, v |-> v, f |-> f] :
             k \in {q \in 1..Len(toks) : toks[q].kind = "rec"},
             v \in Terms, f \in {0, 1}}
    \cup {[m |-> "long", k |-> k, v |-> n, f |-> 0] :
             k \in {q \in 1..Len(toks) : toks[q].kind = "str" /\ Len(toks[q].bytes) > 1},
             n \in LongLens}
    \cup {[m |-> "cut", k |-> k, v |-> 0, f |-> 0] : k \in 0..(15 + Len(Flat(toks)))}
    \cup {[m |-> "trail", k |-> 0, v |-> 0, f |-> 0]}
    \cup {[m |-> "longall", k |-> 0, v |-> StrCap - 1, f |-> 0]}

Damaged(toks, d) ==
    IF d.m = "rec"
    THEN [toks EXCEPT ![d.k] =
            Rec(IF d.f = 1 THEN <<255, 255, 255, 127>> ELSE U32(0),
                IF d.f = 1 THEN 65535 ELSE 0,
                IF d.f = 1 THEN 32767 ELSE 65535,
                SubSeq(@.bytes, 9, 12), SubSeq(@.bytes, 13, 16), d.v)]
    ELSE IF d.m = "long"
    THEN [toks EXCEPT ![d.k] = Str([q \in 1..d.v |-> 65])]
    ELSE IF d.m = "longall"
    THEN [k \in 1..Len(toks) |->
            IF toks[k].kind = "str" /\ Len(toks[k].bytes) > 1
            THEN Str([q \in 1..d.v |-> 65])
            ELSE toks[k]]
    ELSE toks

Trailer == <<116, 0, 100, 0, 110, 0, 255, 255>>

Archive(es, h, d) ==
    LET bytes == Header(h) \o Flat(Damaged(Tree(es, 1), d))
    IN IF d.m = "cut" THEN Take(bytes, d.k)
       ELSE IF d.m = "trail" THEN bytes \o Trailer
       ELSE bytes

Magics == {VPK_SIG, 873638485, 1437209141}     \* 0x3412AA55, 0x55AA1235
Versions == {0, 1, 2, 3, 16777216}
Offsets == {16, 17, 4096}
Sizes == {0, 18, 36, 64, 100, 128, 1152}

\* the inputs: every entry list under a well-formed header, the sample lists
\* under every header, and the sample lists under every damage
Inputs ==
    {[es |-> es, hdr |-> [magic |-> VPK_SIG, version |-> 1, pos |-> 16, size |-> s],
      mut |-> NoDamage] :
        es \in Lists(MaxEntries), s \in {1152}}
    \cup {[es |-> es, hdr |-> [magic |-> VPK_SIG, version |-> 1, pos |-> 16,
                               size |-> 18 * Len(es)], mut |-> NoDamage] :
        es \in Lists(MaxEntries)}
    \cup {[es |-> es, hdr |-> [magic |-> m, version |-> v, pos |-> p, size |-> s],
           mut |-> NoDamage] :
        es \in Samples, m \in Magics, v \in Versions, p \in Offsets, s \in Sizes}
    \cup UNION {{[es |-> es, hdr |-> [magic |-> VPK_SIG, version |-> v, pos |-> 16,
                                      size |-> 64], mut |-> d] :
                    d \in Damages(Tree(es, 1)), v \in {1, 2}} : es \in Samples}

-----------------------------------------------------------------------------
(* The stream and the unpacking layer, as the archiver uses them *)

\* __PHYSFS_readAll(io, buf, n) with the io at cur: all n bytes or a failure
\* that leaves the io at the end of the stream
ReadAll(cur, n) ==
    IF cur + n <= Len(stream)
    THEN [ok |-> TRUE, data |-> SubSeq(stream, cur + 1, cur + n), cur |-> cur + n]
    ELSE [ok |-> FALSE, data |-> <<>>, cur |-> Len(stream)]

\* io->seek(io, pos) succeeds inside the stream
SeekOk(w) == Fits(w) /\ Val(w) <= Len(stream)

-----------------------------------------------------------------------------
(* vpkReadString, lines 37-53 *)

\* the while loop at line 42, from the io's position cur: it stores the bytes
\* up to the first NUL among the next maxlen bytes and returns 1; with no NUL
\* there it stops after maxlen bytes (line 52), or at the end of the stream
\* when the read of line 45 fails
vpkReadStringFrom(cur, maxlen) ==
    LET avail == IF Len(stream) - cur < maxlen THEN Len(stream) - cur ELSE maxlen
        nuls == {k \in 1..avail : stream[cur + k] = 0}
    IN IF nuls # {}
       THEN [ok |-> TRUE, dest |-> SubSeq(stream, cur + 1, cur + Least(nuls)),
             cur |-> cur + Least(nuls), err |-> err, ret |-> 1]
       ELSE IF avail = maxlen
       THEN [ok |-> FALSE, dest |-> SubSeq(stream, cur + 1, cur + maxlen),
             cur |-> cur + maxlen, err |-> err, ret |-> 0]
       ELSE [ok |-> FALSE, dest |-> SubSeq(stream, cur + 1, cur + avail),
             cur |-> Len(stream), err |-> "IO", ret |-> 0]

\* the loop run with the condition pos <= maxlen
vpkReadString_OffByOne(maxlen) == vpkReadStringFrom(cursor, maxlen + 1)

\* the reader with `return pos` in place of `return 1`
vpkReadString_Count(maxlen) ==
    LET r == vpkReadStringFrom(cursor, maxlen)
    IN [r EXCEPT !.ret = IF r.ok THEN r.cur - cursor ELSE 0]

\* the reader leaving the stream position at the string's start
vpkReadString_Rewind(maxlen) ==
    LET r == vpkReadStringFrom(cursor, maxlen)
    IN [r EXCEPT !.cur = cursor]

vpkReadString(maxlen) == vpkReadStringFrom(cursor, maxlen)

StrLog(level, r) ==
    [level |-> level, start |-> cursor, ok |-> r.ok, used |-> r.cur - cursor,
     dest |-> r.dest, ret |-> r.ret]

-----------------------------------------------------------------------------
(* VPK_openArchive, lines 131-177 *)

inputV == <<stream, hostBE, loader, forWriting, input>>
hdrV == <<magic, version, pos, count>>
arcV == <<unpkarc, registry, abandoned>>
walkV == <<ext, dir, name, path, entry, strlog, nnames, recs>>

Init ==
    /\ \E in \in Inputs :
          /\ input = in
          /\ stream = Archive(in.es, in.hdr, in.mut)
    /\ hostBE \in BOOLEAN
    /\ loader \in {"tree", "flat"}
    /\ forWriting \in {0, 1}
    /\ cursor = 0
    /\ pc = "start"
    /\ err = "OK"
    /\ claimed = 0
    /\ magic = U32(0)
    /\ version = U32(0)
    /\ pos = U32(0)
    /\ count = 0
    /\ unpkarc = "NULL"
    /\ registry = <<>>
    /\ abandoned = 0
    /\ result = "none"
    /\ seeks = <<>>
    /\ ext = <<>>
    /\ dir = <<>>
    /\ name = <<>>
    /\ path = <<>>
    /\ entry = [crc |-> U32(0), preload |-> 0, archive |-> 0, offset |-> U32(0),
                size |-> U32(0), terminator |-> 0]
    /\ i = 0
    /\ strlog = [level |-> "none", start |-> 0, ok |-> FALSE, used |-> 0, dest |-> <<>>,
                 ret |-> 0]
    /\ nnames = 0
    /\ recs = <<>>

\* BAIL(e, NULL) before the registry exists
Bail(e) ==
    /\ err' = e
    /\ result' = "NULL"
    /\ pc' = "done"

\* BAIL_IF(forWriting, ...), line 140
WriteIgnored(fw) == FALSE
WriteRejected(fw) == fw # 0

\* line 140
CheckForWriting ==
    /\ pc = "start"
    /\ IF WriteRejected(forWriting)
       THEN Bail("READ_ONLY")
       ELSE /\ pc' = "magic"
            /\ UNCHANGED <<err, result>>
    /\ UNCHANGED <<inputV, hdrV, arcV, walkV, cursor, claimed, seeks, i>>

\* lines 142-145
ReadMagic ==
    /\ pc = "magic"
    /\ LET r == ReadAll(cursor, 4)
           m == LE32(r.data)
       IN /\ cursor' = r.cur
          /\ IF ~r.ok
             THEN Bail("IO") /\ UNCHANGED magic
             ELSE /\ magic' = m
                  /\ IF m # U32(VPK_SIG)
                     THEN Bail("UNSUPPORTED")
                     ELSE pc' = "version" /\ UNCHANGED <<err, result>>
    /\ UNCHANGED <<inputV, version, pos, count, arcV, walkV, claimed, seeks, i>>

\* if (version != 1 && version != 2), line 149
VersionUnsupported_Or(v) == v # U32(1) \/ v # U32(2)
VersionUnsupported(v) == v # U32(1) /\ v # U32(2)

\* lines 147-150
ReadVersion ==
    /\ pc = "version"
    /\ LET r == ReadAll(cursor, 4)
           v == LE32(r.data)
       IN /\ cursor' = r.cur
          /\ IF ~r.ok
             THEN Bail("IO") /\ UNCHANGED version
             ELSE /\ version' = v
                  /\ IF VersionUnsupported(v)
                     THEN Bail("UNSUPPORTED")
                     ELSE pc' = "claim" /\ UNCHANGED <<err, result>>
    /\ UNCHANGED <<inputV, magic, pos, count, arcV, walkV, claimed, seeks, i>>

\* line 152
SetClaimed ==
    /\ pc = "claim"
    /\ claimed' = 1
    /\ pc' = "pos"
    /\ UNCHANGED <<inputV, hdrV, arcV, walkV, cursor, err, result, seeks, i>>

\* lines 154-155
ReadPos ==
    /\ pc = "pos"
    /\ LET r == ReadAll(cursor, 4)
       IN /\ cursor' = r.cur
          /\ IF ~r.ok
             THEN Bail("IO") /\ UNCHANGED pos
             ELSE /\ pos' = LE32(r.data)
                  /\ pc' = "count"
                  /\ UNCHANGED <<err, result>>
    /\ UNCHANGED <<inputV, magic, version, count, arcV, walkV, claimed, seeks, i>>

\* count % 64 and count / 64 of a word
Mod64(w) == w[1] % FlatRecordSize
Div64(w) == (w[1] \div FlatRecordSize) + 4 * w[2] + 1024 * w[3] + 262144 * w[4]

\* lines 157-162
ReadCount ==
    /\ pc = "count"
    /\ LET r == ReadAll(cursor, 4)
           c == LE32(r.data)
       IN /\ cursor' = r.cur
          /\ IF ~r.ok
             THEN Bail("IO") /\ UNCHANGED count
             ELSE IF Mod64(c) # 0
             THEN Bail("CORRUPT") /\ UNCHANGED count
             ELSE /\ count' = Div64(c)
                  /\ pc' = "seek"
                  /\ UNCHANGED <<err, result>>
    /\ UNCHANGED <<inputV, magic, version, pos, arcV, walkV, claimed, seeks, i>>

\* the argument of io->seek, line 164
SeekTarget_Count == U32(count)
SeekTarget == pos

\* line 164
Seek ==
    /\ pc = "seek"
    /\ seeks' = Append(seeks, SeekTarget)
    /\ IF SeekOk(SeekTarget)
       THEN /\ cursor' = Val(SeekTarget)
            /\ pc' = "unpk"
            /\ UNCHANGED <<err, result>>
       ELSE Bail("IO") /\ UNCHANGED cursor
    /\ UNCHANGED <<inputV, hdrV, arcV, walkV, claimed, i>>

\* lines 167-170: UNPK_openArchive gives a handle or fails for lack of memory;
\* with a handle, control enters vpkLoadEntries
OpenRegistry ==
    /\ pc = "unpk"
    /\ \E ok \in BOOLEAN :
          IF ok
          THEN /\ unpkarc' = "handle"
               /\ pc' = IF loader = "tree" THEN "ext" ELSE "flat"
               /\ UNCHANGED <<err, result>>
          ELSE Bail("OUT_OF_MEMORY") /\ UNCHANGED unpkarc
    /\ UNCHANGED <<inputV, hdrV, registry, abandoned, walkV, cursor, claimed, seeks, i>>

\* the failure path without the call of line 172
AbandonArchive_Leak ==
    /\ pc = "abandon"
    /\ result' = "NULL"
    /\ pc' = "done"
    /\ UNCHANGED <<inputV, hdrV, arcV, walkV, cursor, err, claimed, seeks, i>>

\* lines 170-174: vpkLoadEntries returned 0
AbandonArchive ==
    /\ pc = "abandon"
    /\ abandoned' = abandoned + 1
    /\ registry' = <<>>
    /\ result' = "NULL"
    /\ pc' = "done"
    /\ UNCHANGED <<inputV, hdrV, unpkarc, walkV, cursor, err, claimed, seeks, i>>

-----------------------------------------------------------------------------
(* vpkLoadEntries, the tree walk, lines 55-109 *)

\* return 1 at line 108, then return unpkarc at line 176
ReturnHandle ==
    /\ result' = "handle"
    /\ pc' = "done"

\* the format arguments with dir and ext exchanged
AssemblePath_Swapped(d, n, e) ==
    Take(CStr(e) \o <<47>> \o CStr(n) \o <<46>> \o CStr(d), PathCap - 1)

\* the call with sizeof(name) as the size of the destination
AssemblePath_NameSize(d, n, e) ==
    Take(CStr(d) \o <<47>> \o CStr(n) \o <<46>> \o CStr(e), StrCap - 1)

\* snprintf(path, sizeof(path), "%s%c%s%c%s", dir, '/', name, '.', ext), line 94
AssemblePath(d, n, e) ==
    Take(CStr(d) \o <<47>> \o CStr(n) \o <<46>> \o CStr(e), PathCap - 1)

\* lines 74-76
ReadExt ==
    /\ pc = "ext"
    /\ LET r == vpkReadString(StrCap)
       IN /\ cursor' = r.cur
          /\ ext' = r.dest
          /\ err' = r.err
          /\ strlog' = StrLog("ext", r)
          /\ IF r.ret = 0
             THEN pc' = "abandon" /\ UNCHANGED result
             ELSE IF r.dest[1] = 0
             THEN ReturnHandle
             ELSE pc' = "dir" /\ UNCHANGED result
    /\ UNCHANGED <<inputV, hdrV, arcV, dir, name, path, entry, nnames, recs, claimed,
                   seeks, i>>

\* the directory loop with continue for break at line 83
ReadDir_Continue ==
    /\ pc = "dir"
    /\ LET r == vpkReadString(StrCap)
       IN /\ cursor' = r.cur
          /\ dir' = r.dest
          /\ err' = r.err
          /\ strlog' = StrLog("dir", r)
          /\ pc' = IF r.ret = 0 THEN "abandon" ELSE IF r.dest[1] = 0 THEN "dir" ELSE "name"
    /\ UNCHANGED <<inputV, hdrV, arcV, ext, name, path, entry, nnames, recs,
                   result, claimed, seeks, i>>

\* lines 81-83
ReadDir ==
    /\ pc = "dir"
    /\ LET r == vpkReadString(StrCap)
       IN /\ cursor' = r.cur
          /\ dir' = r.dest
          /\ err' = r.err
          /\ strlog' = StrLog("dir", r)
          /\ pc' = IF r.ret = 0 THEN "abandon" ELSE IF r.dest[1] = 0 THEN "ext" ELSE "name"
    /\ UNCHANGED <<inputV, hdrV, arcV, ext, name, path, entry, nnames, recs,
                   result, claimed, seeks, i>>

\* lines 88-94
ReadName ==
    /\ pc = "name"
    /\ LET r == vpkReadString(StrCap)
       IN /\ cursor' = r.cur
          /\ name' = r.dest
          /\ err' = r.err
          /\ strlog' = StrLog("name", r)
          /\ IF r.ret = 0
             THEN pc' = "abandon" /\ UNCHANGED <<path, nnames>>
             ELSE IF r.dest[1] = 0
             THEN pc' = "dir" /\ UNCHANGED <<path, nnames>>
             ELSE /\ path' = AssemblePath(dir, r.dest, ext)
                  /\ nnames' = nnames + 1
                  /\ pc' = "entry"
    /\ UNCHANGED <<inputV, hdrV, arcV, ext, dir, entry, recs, result, claimed,
                   seeks, i>>

\* the terminator compared as one byte
TerminatorBad_LowByte(e) == e.terminator % 256 # TerminatorOK % 256

\* BAIL_IF(entry.terminator != 0xFFFF, PHYSFS_ERR_CORRUPT, 0), line 103
TerminatorBad(e) == e.terminator # TerminatorOK

\* lines 97-103
ReadEntry ==
    /\ pc = "entry"
    /\ LET r1 == ReadAll(cursor, 4)
           r2 == ReadAll(r1.cur, 2)
           r3 == ReadAll(r2.cur, 2)
           r4 == ReadAll(r3.cur, 4)
           r5 == ReadAll(r4.cur, 4)
           r6 == ReadAll(r5.cur, 2)
           e == [crc |-> NativeWord(r1.data), preload |-> NativeU16(r2.data),
                 archive |-> NativeU16(r3.data), offset |-> NativeWord(r4.data),
                 size |-> NativeWord(r5.data), terminator |-> NativeU16(r6.data)]
       IN /\ cursor' = r6.cur
          /\ IF ~(r1.ok /\ r2.ok /\ r3.ok /\ r4.ok /\ r5.ok /\ r6.ok)
             THEN /\ err' = "IO"
                  /\ pc' = "abandon"
                  /\ UNCHANGED <<entry, recs>>
             ELSE /\ entry' = e
                  /\ recs' = Append(recs, cursor)
                  /\ IF TerminatorBad(e)
                     THEN err' = "CORRUPT" /\ pc' = "abandon"
                     ELSE pc' = "name" /\ UNCHANGED err
    /\ UNCHANGED <<inputV, hdrV, arcV, ext, dir, name, path, strlog, nnames,
                   result, claimed, seeks, i>>

-----------------------------------------------------------------------------
(* vpkLoadEntries, the flat table, lines 111-128 *)

\* what follows a name that fills its 56 bytes without a NUL is whatever the
\* stack holds after it
Overrun == {<<>>, <<1>>}
NameTails(n) == IF \E k \in 1..Len(n) : n[k] = 0 THEN {<<>>} ELSE Overrun

\* lines 114-127
FlatEntry ==
    /\ pc = "flat"
    /\ IF i < count
       THEN LET r1 == ReadAll(cursor, FlatNameLen)
                r2 == ReadAll(r1.cur, 4)
                r3 == ReadAll(r2.cur, 4)
            IN /\ cursor' = r3.cur
               /\ IF ~(r1.ok /\ r2.ok /\ r3.ok)
                  THEN /\ err' = "IO"
                       /\ pc' = "abandon"
                       /\ UNCHANGED <<registry, i, result>>
                  ELSE \E ok \in BOOLEAN, tail \in NameTails(r1.data) :
                          IF ok
                          THEN /\ registry' = Append(registry,
                                     [path |-> CStr(r1.data) \o tail,
                                      offset |-> LE32(r2.data),
                                      size |-> LE32(r3.data)])
                               /\ i' = i + 1
                               /\ UNCHANGED <<pc, err, result>>
                          ELSE /\ err' = "OUT_OF_MEMORY"
                               /\ pc' = "abandon"
                               /\ UNCHANGED <<registry, i, result>>
       ELSE /\ ReturnHandle
            /\ UNCHANGED <<cursor, err, registry, i>>
    /\ UNCHANGED <<inputV, hdrV, unpkarc, abandoned, walkV, claimed, seeks>>

-----------------------------------------------------------------------------

Next ==
    \/ CheckForWriting
    \/ ReadMagic
    \/ ReadVersion
    \/ SetClaimed
    \/ ReadPos
    \/ ReadCount
    \/ Seek
    \/ OpenRegistry
    \/ ReadExt
    \/ ReadDir
    \/ ReadName
    \/ ReadEntry
    \/ FlatEntry
    \/ AbandonArchive

Spec == Init /\ [][Next]_vars

-----------------------------------------------------------------------------
(* Properties *)

SigBytes == <<52, 18, 170, 85>>          \* 34 12 AA 55
HasMagic == Len(stream) >= 4 /\ SubSeq(stream, 1, 4) = SigBytes
VersionBytes == SubSeq(stream, 5, 8)
Intact == input.mut.m = "none"
GoodHeader == /\ input.hdr.magic = 1437209140
              /\ input.hdr.version \in {1, 2}
              /\ input.hdr.pos = 16
Finished == pc = "done"

\* the terminator bytes of the record read at stream offset a
TermBytes(a) == <<stream[a + 17], stream[a + 18]>>
BadRecs == {k \in 1..Len(recs) : TermBytes(recs[k]) # <<255, 255>>}

\* C1: for every valid archive a successful open by the tree walk has
\* registered exactly one entry per non-empty name string read.
C1_OneEntryPerName ==
    (loader = "tree" /\ Finished /\ result = "handle") => Len(registry) = nnames

\* C2: round trip: an entry list encoded as a header (directory size 18 bytes
\* per entry, or 1152 = 18 * 64) and the nested string tree with 18-byte
\* records decodes, when no allocation fails, to a handle whose registry holds
\* the list's (path, offset, size) triples in stream order.
C2_RoundTrip ==
    (/\ forWriting = 0
     /\ Intact
     /\ GoodHeader
     /\ input.hdr.size \in {18 * Len(input.es), 1152}
     /\ Finished
     /\ err # "OUT_OF_MEMORY")
    => (result = "handle" /\ registry = Triples(input.es))

\* C3: a record read during the tree walk whose terminator bytes are not
\* FF FF is the last record read; the walk stops with the error corrupt and
\* open-archive returns no handle and leaves no entry, whatever the record's
\* other fields are.
C3_BadTerminatorCorrupt ==
    \A k \in BadRecs :
        /\ k = Len(recs)
        /\ pc \in {"abandon", "done"}
        /\ err = "CORRUPT"
        /\ result # "handle"
        /\ (Finished => result = "NULL" /\ registry = <<>> /\ abandoned = 1)

C3_Witness ==
    /\ Finished
    /\ BadRecs # {}
    /\ input.mut.m = "rec"
    /\ input.mut.f = 1
    /\ Len(recs) = 2
    /\ err = "CORRUPT"
    /\ result = "NULL"

C5_BadMagicUnsupported ==
    (forWriting = 0 /\ Len(stream) >= 4 /\ SubSeq(stream, 1, 4) # SigBytes)
    => \/ pc \in {"start", "magic"} /\ cursor = 0 /\ result = "none"
       \/ /\ Finished
          /\ result = "NULL"
          /\ err = "UNSUPPORTED"
          /\ claimed = 0
          /\ cursor = 4
          /\ seeks = <<>>
          /\ unpkarc = "NULL"
          /\ registry = <<>>

C5_Witness ==
    /\ Finished
    /\ forWriting = 0
    /\ Len(stream) > 16
    /\ SubSeq(stream, 1, 4) = <<85, 170, 18, 52>>
    /\ err = "UNSUPPORTED"
    /\ cursor = 4

\* C6: once the magic matches the archive is claimed: every open for reading
\* of a stream that begins 34 12 AA 55 returns with the claimed flag set.
C6_ClaimedOnceMagicMatches ==
    (forWriting = 0 /\ HasMagic /\ Finished) => claimed = 1

\* C7: with the magic valid, a version field other than 1 and 2 fails with
\* the error unsupported after reading eight bytes, with no seek, no registry
\* and no directory string read; versions 1 and 2 both pass the check, leaving
\* the same state behind it, and never end with that error.
C7_VersionCheck ==
    (forWriting = 0 /\ HasMagic /\ Len(stream) >= 8)
    => IF VersionBytes \notin {<<1, 0, 0, 0>>, <<2, 0, 0, 0>>}
       THEN \/ pc \in {"start", "magic", "version"}
            \/ /\ Finished
               /\ result = "NULL"
               /\ err = "UNSUPPORTED"
               /\ cursor = 8
               /\ seeks = <<>>
               /\ unpkarc = "NULL"
               /\ strlog.level = "none"
       ELSE /\ (Finished => err # "UNSUPPORTED" /\ claimed = 1)
            /\ (pc = "claim" => cursor = 8 /\ err = "OK" /\ result = "none")

C7_Witness ==
    /\ Finished
    /\ forWriting = 0
    /\ HasMagic
    /\ Len(stream) > 16
    /\ VersionBytes = <<3, 0, 0, 0>>
    /\ err = "UNSUPPORTED"
    /\ cursor = 8

\* C8: with magic and version valid, a directory size that is not a multiple
\* of 18 fails with the error corrupt before any seek or registry creation,
\* and a directory size that is a multiple of 18 passes the check.
C8_SizeMultipleOf18 ==
    (forWriting = 0 /\ input.mut.m # "cut" /\ GoodHeader)
    => IF input.hdr.size % 18 # 0
       THEN Finished => /\ result = "NULL"
                        /\ err = "CORRUPT"
                        /\ seeks = <<>>
                        /\ unpkarc = "NULL"
       ELSE ~(Finished /\ err = "CORRUPT" /\ seeks = <<>>)

\* C9: an open with write intent is rejected with the read-only error before
\* anything is read or sought: the cursor stays at 0, the claimed flag unset,
\* no registry is made, whatever the stream holds.
C9_WriteRejected ==
    forWriting # 0
    => \/ pc = "start" /\ result = "none"
       \/ /\ Finished
          /\ result = "NULL"
          /\ err = "READ_ONLY"
          /\ cursor = 0
          /\ claimed = 0
          /\ seeks = <<>>
          /\ unpkarc = "NULL"
          /\ registry = <<>>

C9_Witness ==
    /\ Finished
    /\ forWriting = 1
    /\ Intact
    /\ GoodHeader
    /\ input.hdr.size = 1152
    /\ Len(input.es) = 2
    /\ err = "READ_ONLY"

\* C10: a string read that meets 256 non-null bytes fails having consumed
\* exactly 256 bytes and the open returns no handle; a string read that meets
\* at most 255 non-null bytes and then a null byte succeeds, stores the
\* terminator and has consumed exactly the content length plus one.
NonNull(a, n) == a + n <= Len(stream) /\ \A k \in 1..n : stream[a + k] # 0
C10_StringBoundary ==
    strlog.level # "none"
    => LET a == strlog.start
       IN /\ NonNull(a, 256)
             => /\ ~strlog.ok
                /\ strlog.used = 256
                /\ pc \in {"abandon", "done"}
                /\ cursor = a + 256
                /\ result # "handle"
                /\ (Finished => result = "NULL")
          /\ \A n \in 0..255 :
                (NonNull(a, n) /\ a + n + 1 <= Len(stream) /\ stream[a + n + 1] = 0)
                => /\ strlog.ok
                   /\ strlog.used = n + 1
                   /\ Len(strlog.dest) = n + 1
                   /\ strlog.dest[n + 1] = 0

C10_Witness ==
    /\ Finished
    /\ strlog.level = "name"
    /\ NonNull(strlog.start, 256)
    /\ strlog.used = 256
    /\ result = "NULL"

\* C11: the tree walk follows AwaitExtension -> AwaitDirectory -> AwaitName ->
\* EmitEntry: a non-empty string descends one level, an empty name returns to
\* AwaitDirectory, an empty directory to AwaitExtension, a validated record to
\* AwaitName; a handle is returned only from AwaitExtension on an empty
\* extension string, and then the cursor rests just behind that string: no
\* later byte (a trailer) is read and no entry is added.
NextByte == IF cursor < Len(stream) THEN stream[cursor + 1] ELSE -1
C11_Step ==
    loader = "tree" =>
       /\ pc = "ext" => /\ pc' \in {"dir", "done", "abandon"}
                        /\ pc' = "dir" => NextByte > 0
                        /\ pc' = "done" => NextByte = 0 /\ result' = "handle"
       /\ pc = "dir" => /\ pc' \in {"name", "ext", "abandon"}
                        /\ pc' = "name" => NextByte > 0
                        /\ pc' = "ext" => NextByte = 0
       /\ pc = "name" => /\ pc' \in {"entry", "dir", "abandon"}
                         /\ pc' = "entry" => NextByte > 0 /\ nnames' = nnames + 1
                         /\ pc' = "dir" => NextByte = 0
       /\ pc = "entry" => /\ pc' \in {"name", "abandon"}
                          /\ pc' = "name" => /\ cursor' = cursor + 18
                                             /\ TermBytes(cursor) = <<255, 255>>
       /\ pc # "name" => nnames' = nnames
       /\ result' = "handle" => pc = "ext"
       /\ pc = "done" => cursor' = cursor /\ registry' = registry
C11_AtDone ==
    (loader = "tree" /\ result = "handle")
    => /\ Finished
       /\ strlog.level = "ext"
       /\ cursor = strlog.start + 1
       /\ (input.mut.m \in {"none", "trail"} /\ input.hdr.pos = 16
             => cursor = 16 + Len(Flat(Tree(input.es, 1))))
C11_WalkStateMachine == [](C11_AtDone) /\ [][C11_Step]_vars

C11_Witness ==
    /\ loader = "tree"
    /\ result = "handle"
    /\ input.mut.m = "trail"
    /\ input.hdr.version = 2
    /\ nnames = 2
    /\ Len(stream) = cursor + 8

\* C12: the stream is sought at most once, and exactly once by an open that
\* returns a handle; the seek targets the offset held in header bytes 9-12, is
\* made with all 16 header bytes read and magic, version and directory size
\* checked, before any directory string is read; no seek is made during the
\* walk, whose reads only move the cursor forward.
C12_Seeks ==
    /\ Len(seeks) <= 1
    /\ (result = "handle" => Len(seeks) = 1)
    /\ (seeks # <<>> =>
           /\ seeks[1] = SubSeq(stream, 9, 12)
           /\ HasMagic
           /\ VersionBytes \in {<<1, 0, 0, 0>>, <<2, 0, 0, 0>>}
           /\ Len(stream) >= 16
           /\ stream[13] % 64 = 0)     \* the size check the code makes, see C8
    /\ (strlog.level # "none" => Len(seeks) = 1 /\ strlog.start >= Val(seeks[1]))
C12_Step ==
    /\ seeks' # seeks => /\ pc = "seek"
                         /\ cursor = 16
                         /\ claimed = 1
                         /\ strlog.level = "none"
                         /\ unpkarc = "NULL"
    /\ pc \in {"ext", "dir", "name", "entry", "flat", "abandon", "done"}
          => seeks' = seeks /\ cursor' >= cursor
C12_SingleSeek == [](C12_Seeks) /\ [][C12_Step]_vars

C12_Witness ==
    /\ result = "handle"
    /\ loader = "tree"
    /\ seeks = <<U32(16)>>
    /\ nnames = 2
    /\ cursor > 16

\* C13: when the walk has read a non-empty name, the assembled path is the
\* directory in force, '/', the name, '.', the extension in force; for an
\* archive built from an entry list it is the path of the entry whose name was
\* just read, so names under one directory share prefix and suffix.
Content(buf) == SubSeq(buf, 1, Len(buf) - 1)
C13_PathAssembled ==
    (loader = "tree" /\ pc = "entry")
    => /\ path = Content(dir) \o <<47>> \o Content(name) \o <<46>> \o Content(ext)
       /\ name = SubSeq(stream, strlog.start + 1, cursor)
       /\ (input.mut.m \in {"none", "trail"} /\ input.hdr.pos = 16
             => nnames <= Len(input.es) /\ path = PathOf(input.es[nnames]))

C13_Witness ==
    /\ loader = "tree"
    /\ pc = "entry"
    /\ nnames = 2
    /\ input.es = <<E1, E2>>
    /\ input.mut.m = "none"
    /\ path = <<100, 47, 109, 111, 46, 120>>

\* C14: the decode is driven by the tree's sentinels, not by the header's
\* directory size: for an undamaged archive whose size field passes the size
\* check, whatever that size is, the open (no allocation failing) returns a
\* handle having read exactly the names of the tree and stopped behind its
\* last sentinel.
WalkedWholeTree ==
    /\ result = "handle"
    /\ nnames = Len(input.es)
    /\ cursor = 16 + Len(Flat(Tree(input.es, 1)))
C14_SizeNeverDrivesDecode ==
    (/\ forWriting = 0
     /\ input.mut.m \in {"none", "trail"}
     /\ GoodHeader
     /\ input.hdr.size % 64 = 0
     /\ Finished
     /\ err # "OUT_OF_MEMORY")
    => WalkedWholeTree

\* the same with the tree-walking definition of vpkLoadEntries called
TreeWalkIgnoresSize == loader = "tree" => C14_SizeNeverDrivesDecode

HeaderRead(n) == pc \notin {"start", "magic"} /\ Len(stream) >= n /\ cursor >= n

\* the header fields, once read, hold the little-endian value of their bytes
HeaderLittleEndian ==
    /\ (HeaderRead(4) /\ forWriting = 0 => magic = SubSeq(stream, 1, 4))
    /\ (pc \in {"claim", "pos", "count", "seek", "unpk"}
           => version = SubSeq(stream, 5, 8))
    /\ (pc \in {"count", "seek", "unpk"} => pos = SubSeq(stream, 9, 12))
    /\ (pc \in {"seek", "unpk"} => count = Div64(SubSeq(stream, 13, 16)))

\* C15: every multi-byte field is decoded as little-endian on either host:
\* the header's magic, version, directory offset and directory size once
\* read, and the offset, size and terminator of the last record read, hold the
\* little-endian value of their stream bytes.
C15_LittleEndianFields ==
    /\ HeaderLittleEndian
    /\ (recs # <<>> =>
           LET a == recs[Len(recs)]
           IN /\ entry.offset = SubSeq(stream, a + 9, a + 12)
              /\ entry.size = SubSeq(stream, a + 13, a + 16)
              /\ entry.terminator = stream[a + 17] + 256 * stream[a + 18])

\* C16: when the last string read filled its 256-byte buffer without meeting
\* a NUL byte, the error code observed after VPK_openArchive has returned is
\* 'corrupt'.
CapacityExhausted ==
    strlog.level # "none" /\ ~strlog.ok /\ NonNull(strlog.start, StrCap)
C16_ExhaustionIsCorrupt ==
    (Finished /\ CapacityExhausted) => (result = "NULL" /\ err = "CORRUPT")

\* what the code leaves instead: the failure is reported, the error code is
\* the one the thread had before the call
ExhaustionLeavesErrorUnset ==
    (Finished /\ CapacityExhausted) => (result = "NULL" /\ err = "OK")

\* C17 as stated: on success the string reader returns the number of bytes it
\* consumed, terminator included (k + 1 for k content bytes).
C17_ReturnsConsumedCount ==
    (strlog.level # "none" /\ strlog.ok) => strlog.ret = strlog.used

\* C17 as amended: the string reader returns 1 on success whatever the length
\* of the string and 0 on failure; on success it has consumed the k content
\* bytes and the terminator, k + 1 <= 256 bytes, and stored them.
C17_ReturnsFlag ==
    strlog.level # "none" =>
       LET a == strlog.start
       IN /\ strlog.ret \in {0, 1}
          /\ strlog.ret = 1 <=>
                \E k \in 0..(StrCap - 1) :
                   /\ NonNull(a, k)
                   /\ a + k + 1 <= Len(stream)
                   /\ stream[a + k + 1] = 0
          /\ strlog.ret = 1 =>
                /\ strlog.used \in 1..StrCap
                /\ cursor >= a + strlog.used
                /\ stream[a + strlog.used] = 0
                /\ NonNull(a, strlog.used - 1)
                /\ strlog.dest = SubSeq(stream, a + 1, a + strlog.used)
          /\ (strlog.ret = 0 /\ pc # "done") => pc = "abandon"
C17_Witness ==
    /\ strlog.level = "name"
    /\ strlog.ret = 1
    /\ strlog.used = StrCap
    /\ pc = "entry"

\* VPK_openArchive is one sequential call: it keeps running until it returns
FairSpec == Spec /\ WF_vars(Next)

\* holds under FairSpec
EventuallyFinished == <>Finished

WalkPcs == {"ext", "dir", "name", "entry"}

\* the position of the call in VPK_openArchive, counted from its return
Phase(p) ==
    CASE p = "start" -> 10
      [] p = "magic" -> 9
      [] p = "version" -> 8
      [] p = "claim" -> 7
      [] p = "pos" -> 6
      [] p = "count" -> 5
      [] p = "seek" -> 4
      [] p = "unpk" -> 3
      [] p \in WalkPcs \cup {"flat"} -> 2
      [] p = "abandon" -> 1
      [] p = "done" -> 0

\* every step either leaves a loop towards the return or, staying inside the
\* loops of vpkLoadEntries, moves the cursor forward within the stream
C18_Step ==
    \/ Phase(pc') < Phase(pc)
    \/ /\ Phase(pc') = Phase(pc)
       /\ Phase(pc) = 2
       /\ cursor < cursor'
       /\ cursor' <= Len(stream)
C18_End ==
    Finished =>
       /\ result \in {"handle", "NULL"}
       /\ (loader = "tree" /\ result = "handle")
             => (strlog.level = "ext" /\ strlog.ret = 1 /\ strlog.dest = <<0>>)
       /\ (loader = "tree" /\ result = "NULL" /\ strlog.level # "none"
              /\ ~CapacityExhausted /\ BadRecs = {})
             => (err = "IO" /\ cursor = Len(stream))

\* before its return the call always has a next step
NeverStuck == ~Finished => ENABLED Next

\* C18: on every finite stream VPK_openArchive terminates, with a handle after
\* an empty extension string or with a failure: every step either moves towards
\* the return or, staying inside the loops, moves the cursor forward by at
\* least one byte and never beyond the stream's end, so a stream that ends
\* without the sentinel ends in a read failure at its end.
C18_Terminates == [](C18_End) /\ [][C18_Step]_vars
C18_Witness ==
    /\ Finished
    /\ loader = "tree"
    /\ input.mut.m = "cut"
    /\ nnames = 2
    /\ result = "NULL"
    /\ err = "IO"
    /\ cursor = Len(stream)

\* C19: whenever a path has been assembled it fits its 1024-byte buffer
\* untruncated: directory, name and extension hold at most 255 content bytes
\* each, the path is all of them with the two separators, and its length is at
\* most 255 + 1 + 255 + 1 + 255 = 767 bytes, the terminator not counted.
C19_PathFits ==
    (loader = "tree" /\ pc = "entry") =>
       /\ Len(Content(dir)) <= StrCap - 1
       /\ Len(Content(name)) <= StrCap - 1
       /\ Len(Content(ext)) <= StrCap - 1
       /\ Len(path) = Len(Content(dir)) + 1 + Len(Content(name)) + 1 + Len(Content(ext))
       /\ Len(path) <= 3 * (StrCap - 1) + 2
       /\ Len(path) + 1 <= PathCap
       /\ \A k \in 1..Len(path) : path[k] # 0
C19_Witness ==
    /\ loader = "tree"
    /\ pc = "entry"
    /\ input.mut.m = "longall"
    /\ Len(path) = 767
    /\ nnames = 2

=============================================================================
